---- MODULE Spec2Model ----
(***************************************************************************)
(* A model of summarize.py: read a CSV of per-flight observations, pivot   *)
(* it to one row per field (pivot_flights), build a prompt per field      *)
(* (build_flight_blob), ask a text-generation service for a summary with   *)
(* retries (summarize_row), and write the table back (main).               *)
(*                                                                         *)
(* Text is a tuple of one-character strings, so that str.strip() is an     *)
(* operator on it.  A table cell is a record [kind, v]: a str, pandas'     *)
(* missing-value marker NaN, or Python's None.                             *)
(***************************************************************************)
EXTENDS Integers, Sequences, FiniteSets, TLC

VARIABLES
    pc,         \* position of main
    csv,        \* the input file: readable, columns, rows of raw cells
    delay,      \* args.delay, in quarter seconds
    df,         \* main's df (pivot_flights adds resolved_text to it)
    wide,       \* the field-record table returned by pivot_flights
    idx,        \* position of wide.iterrows()
    summaries,  \* main's summaries list
    delays,     \* number of completed time.sleep(args.delay)
    outFile,    \* the output CSV, NoFile until written
    printed,    \* the "Saved: ..." message was printed
    spc,        \* position of summarize_row
    row,        \* summarize_row / build_flight_blob argument
    retries,    \* summarize_row argument
    backoff,    \* summarize_row argument
    flight_blob,\* local of summarize_row
    attempt,    \* loop variable of summarize_row
    request,    \* the request in flight, NoRequest when none
    resp,       \* what the service answered to the last request
    slept,      \* total time.sleep inside summarize_row, in seconds
    requests,   \* requests issued by this call of summarize_row
    fails,      \* attempts of this call that ended in the except clause
    ret,        \* return value of summarize_row
    returned    \* history: each return of summarize_row, [row, value], in call order

vars == <<pc, csv, delay, df, wide, idx, summaries, delays, outFile, printed,
          spc, row, retries, backoff, flight_blob, attempt, request, resp,
          slept, requests, fails, ret, returned>>

mainVars == <<pc, csv, delay, df, wide, idx, summaries, delays, outFile, printed>>
callVars == <<spc, row, retries, backoff, flight_blob, attempt, request, resp,
              slept, requests, fails, ret>>

----------------------------------------------------------------------------
(* Bounds of the model *)

MaxRows == 2        \* rows of the input table
MaxPass == 2        \* largest pass_number of the input table
MaxRetries == 3     \* largest retries argument tried on summarize_row
MaxSlot == 7        \* largest "Flight k" column of a row given to build_flight_blob

----------------------------------------------------------------------------
(* Cells and text *)

Str(s) == [kind |-> "str", v |-> s]
NaN == [kind |-> "nan", v |-> <<>>]
None == [kind |-> "none", v |-> <<>>]

\* isinstance(txt, str)
IsStr(c) == c.kind = "str"
\* pandas' isna
IsNa(c) == c.kind \in {"nan", "none"}

IsSpace(ch) == ch = " "

RECURSIVE LStrip(_)
LStrip(s) ==
    IF s = <<>> THEN <<>>
    ELSE IF IsSpace(Head(s)) THEN LStrip(Tail(s)) ELSE s

RECURSIVE RStrip(_)
RStrip(s) ==
    IF s = <<>> THEN <<>>
    ELSE IF IsSpace(s[Len(s)]) THEN RStrip(SubSeq(s, 1, Len(s) - 1)) ELSE s

\* str.strip()
Strip(s) == RStrip(LStrip(s))

----------------------------------------------------------------------------
(* The input file and pd.read_csv *)

IndexColumns == {"field_id", "field_name", "client_name", "farm_name", "crop_name", "area"}
SelectedColumns == IndexColumns \cup {"pass_number", "resolved_text"}
NarrativeColumns == {"mission_rec", "ag_assistant"}
AllColumns == IndexColumns \cup {"pass_number"} \cup NarrativeColumns

\* a row restricted to the columns the table has
Restrict(r, cols) == [c \in cols |-> r[c]]

\* read_csv's default NA handling: an empty cell is NaN, any other text a str;
\* pass_number is parsed as a number
ReadCell(c, raw) == IF c = "pass_number" THEN raw
                    ELSE IF raw = <<>> THEN NaN ELSE Str(raw)

read_csv(file) ==
    [columns |-> file.columns,
     rows |-> [i \in DOMAIN file.rows |->
                 [c \in file.columns |-> ReadCell(c, file.rows[i][c])]]]

NoTable == [columns |-> {}, rows |-> <<>>]

----------------------------------------------------------------------------
(* pivot_flights *)

\* mutant: the fallback is preferred
combine_first_Swapped(a, b) == IF ~IsNa(b) THEN b ELSE a

\* Series.combine_first: the caller's value unless it is null
combine_first(a, b) == IF ~IsNa(a) THEN a ELSE b

\* df["resolved_text"] = df["mission_rec"].combine_first(df["ag_assistant"])
WithResolved(d) ==
    [columns |-> d.columns \cup {"resolved_text"},
     rows |-> [i \in DOMAIN d.rows |->
                 [c \in d.columns \cup {"resolved_text"} |->
                    IF c = "resolved_text"
                    THEN combine_first(d.rows[i]["mission_rec"], d.rows[i]["ag_assistant"])
                    ELSE d.rows[i][c]]]]

SameSubset(a, b) == a.field_id = b.field_id /\ a.pass_number = b.pass_number

\* drop_duplicates(subset=["field_id", "pass_number"]) of rows[1..n], keep="first"
RECURSIVE drop_duplicates(_, _)
drop_duplicates(rows, n) ==
    IF n = 0 THEN <<>>
    ELSE LET rest == drop_duplicates(rows, n - 1)
         IN IF \E j \in 1..(n - 1) : SameSubset(rows[j], rows[n])
            THEN rest
            ELSE Append(rest, rows[n])

IndexOf(r) == <<r.field_id, r.field_name, r.client_name, r.farm_name, r.crop_name, r.area>>

\* groupby(keys, dropna=True) leaves out the rows with a null key
HasNullKey(r) == \E c \in IndexColumns : IsNa(r[c])

\* groupby "first": the first non-null value of the group, NaN when there is none
RECURSIVE First(_)
First(cells) ==
    IF cells = <<>> THEN NaN
    ELSE IF ~IsNa(Head(cells)) THEN Head(cells) ELSE First(Tail(cells))

RECURSIVE GroupValues(_, _, _)
GroupValues(rows, key, p) ==
    IF rows = <<>> THEN <<>>
    ELSE LET r == Head(rows)
             rest == GroupValues(Tail(rows), key, p)
         IN IF ~HasNullKey(r) /\ IndexOf(r) = key /\ r.pass_number = p
            THEN <<r.resolved_text>> \o rest
            ELSE rest

\* the order pandas sorts the group keys in: text order of the cells
TokenOrder == <<"40", "Acme", "Corn", "F1", "F2", "Farm", "North", "South">>
Rank(cell) == CHOOSE n \in 1..Len(TokenOrder) : TokenOrder[n] = cell.v[1]

RECURSIVE KeyLess(_, _)
KeyLess(a, b) ==
    IF a = <<>> THEN FALSE
    ELSE IF Head(a) = Head(b) THEN KeyLess(Tail(a), Tail(b))
    ELSE Rank(Head(a)) < Rank(Head(b))

RECURSIVE SortKeys(_)
SortKeys(S) ==
    IF S = {} THEN <<>>
    ELSE LET m == CHOOSE k \in S : \A o \in S \ {k} : KeyLess(k, o)
         IN <<m>> \o SortKeys(S \ {m})

\* wide.columns = [f"Flight {int(c)}" for c in wide.columns]
FlightLabel(c) == <<"Flight", c>>

\* df.pivot_table(index=[six attributes], columns=["pass_number"],
\*                values="resolved_text", aggfunc="first"), dropna=True by default:
\* the groups whose aggregate is null are dropped before unstacking
pivot_table(rows) ==
    LET groups == {<<IndexOf(rows[i]), rows[i].pass_number>> :
                      i \in {j \in DOMAIN rows : ~HasNullKey(rows[j])}}
        agg(g) == First(GroupValues(rows, g[1], g[2]))
        agged == {g \in groups : ~IsNa(agg(g))}
        keys == SortKeys({g[1] : g \in agged})
        cols == {g[2] : g \in agged}
    IN [columns |-> {FlightLabel(c) : c \in cols},
        rows |-> [i \in DOMAIN keys |->
                    [field_id |-> keys[i][1], field_name |-> keys[i][2],
                     client_name |-> keys[i][3], farm_name |-> keys[i][4],
                     crop_name |-> keys[i][5], area |-> keys[i][6],
                     flights |-> [l \in {FlightLabel(c) : c \in cols} |->
                                    LET c == l[2]
                                    IN IF <<keys[i], c>> \in agged
                                       THEN agg(<<keys[i], c>>) ELSE NaN]]]]

pivot_flights(d) ==
    LET resolved == WithResolved(d).rows
        selected == [i \in DOMAIN resolved |-> Restrict(resolved[i], SelectedColumns)]
    IN pivot_table(drop_duplicates(selected, Len(selected)))

----------------------------------------------------------------------------
(* build_flight_blob *)

NumSlots == 6       \* range(1, 7)

\* row.get(f"Flight {i}"): None when the row has no such column
Get(r, label) == IF label \in DOMAIN r.flights THEN r.flights[label] ELSE None

BulletLine(i, txt) == <<"- Flight ", i, ": ">> \o Strip(txt.v)
Placeholder == <<"- No flight narratives available.">>

\* mutant: a blank narrative gets a line too
RECURSIVE Parts_NoBlankCheck(_, _)
Parts_NoBlankCheck(r, n) ==
    IF n = 0 THEN <<>>
    ELSE LET txt == Get(r, FlightLabel(n))
         IN IF IsStr(txt)
            THEN Append(Parts_NoBlankCheck(r, n - 1), <<"- Flight ", n, ": ">> \o Strip(txt.v))
            ELSE Parts_NoBlankCheck(r, n - 1)

\* parts after the iterations 1..n of the for loop
RECURSIVE Parts(_, _)
Parts(r, n) ==
    IF n = 0 THEN <<>>
    ELSE LET txt == Get(r, FlightLabel(n))
         IN IF IsStr(txt) /\ Strip(txt.v) # <<>>
            THEN Append(Parts(r, n - 1), BulletLine(n, txt))
            ELSE Parts(r, n - 1)

\* the blob as its sequence of lines ("\n".join(parts))
build_flight_blob(r) ==
    LET parts == Parts(r, NumSlots)
    IN IF parts # <<>> THEN parts ELSE <<Placeholder>>

----------------------------------------------------------------------------
(* The generation service and summarize_row *)

DefaultRetries == 3
DefaultBackoff == 2
MODEL_DEFAULT == "gpt-4.1"
SYSTEM_TONE == "You are an expert retail agronomist. ..."

NoRequest == [model |-> "", input |-> <<>>]

\* USER_TEMPLATE.format(...) after SYSTEM_TONE
Prompt(r, blob) == <<SYSTEM_TONE, r.field_name, r.field_id, r.client_name, blob>>

\* What client.responses.create can do: raise, or answer a list of typed items
Raised == [raised |-> TRUE, output |-> <<>>]
Answer(o) == [raised |-> FALSE, output |-> o]
Reasoning == [type |-> "reasoning", content |-> <<>>]
EmptyMessage == [type |-> "message", content |-> <<>>]
Message(t) == [type |-> "message", content |-> <<[text |-> t]>>]
NoResponse == Answer(<<>>)

Responses ==
    {Raised,
     Answer(<<>>),
     Answer(<<Reasoning>>),
     Answer(<<Reasoning, EmptyMessage>>),
     Answer(<<Reasoning, Message(<<" ", "ok", " ">>)>>),
     Answer(<<Message(<<"a">>), Message(<<"b">>)>>),
     Answer(<<Message(<<" ">>)>>)}

\* next(o for o in resp.output if o.type == "message"): its position, 0 for StopIteration
FirstMessage(output) ==
    IF \E n \in DOMAIN output : output[n].type = "message"
    THEN CHOOSE n \in DOMAIN output :
            /\ output[n].type = "message"
            /\ \A m \in 1..(n - 1) : output[m].type # "message"
    ELSE 0

\* the try block reaches its return
Succeeds(r) ==
    /\ ~r.raised
    /\ FirstMessage(r.output) # 0
    /\ r.output[FirstMessage(r.output)].content # <<>>

\* msg.content[0].text.strip()
AnswerText(r) == Strip(r.output[FirstMessage(r.output)].content[1].text)

\* str(e) of the exception the try block ends in
Describe(r) ==
    IF r.raised THEN <<"Connection error.">>
    ELSE IF FirstMessage(r.output) = 0 THEN <<>>
    ELSE <<"list index out of range">>

ErrorMarker == <<"[LLM error] ">>
ErrorString(r) == ErrorMarker \o Describe(r)

\* mutant: the same delay before every retry
BackoffDelay_Fixed(b, a) == b

\* time.sleep(backoff * (attempt + 1))
BackoffDelay(b, a) == b * (a + 1)

\* mutant: the last attempt is taken for one more
LastAttempt_OffByOne(a, n) == a = n

\* what the except clause does on attempt a of n: TRUE to give up
LastAttempt(a, n) == a = n - 1

\* summarize_row hands v back to its caller
Return(v) ==
    /\ ret' = v
    /\ returned' = Append(returned, [row |-> row, value |-> v])
    /\ spc' = "returned"

SR_Enter ==
    /\ spc = "enter"
    /\ flight_blob' = build_flight_blob(row)
    /\ attempt' = 0
    /\ spc' = "for"
    /\ UNCHANGED <<mainVars, row, retries, backoff, request, resp, slept,
                   requests, fails, ret, returned>>

\* for attempt in range(retries): issue the request, or fall off the end
SR_For ==
    /\ spc = "for"
    /\ IF attempt < retries
       THEN /\ request' = [model |-> MODEL_DEFAULT, input |-> Prompt(row, flight_blob)]
            /\ requests' = requests + 1
            /\ spc' = "await"
            /\ UNCHANGED <<ret, returned>>
       ELSE /\ Return(None)
            /\ UNCHANGED <<request, requests>>
    /\ UNCHANGED <<mainVars, row, retries, backoff, flight_blob, attempt, resp,
                   slept, fails>>

\* the blocking call comes back
SR_Respond ==
    /\ spc = "await"
    /\ \E r \in Responses : resp' = r
    /\ request' = NoRequest
    /\ spc' = "handle"
    /\ UNCHANGED <<mainVars, row, retries, backoff, flight_blob, attempt, slept,
                   requests, fails, ret, returned>>

\* the rest of the try block, or the except clause up to its return
SR_Handle ==
    /\ spc = "handle"
    /\ IF Succeeds(resp)
       THEN /\ Return(Str(AnswerText(resp)))
            /\ UNCHANGED fails
       ELSE /\ fails' = fails + 1
            /\ IF LastAttempt(attempt, retries)
               THEN Return(Str(ErrorString(resp)))
               ELSE /\ spc' = "sleep"
                    /\ UNCHANGED <<ret, returned>>
    /\ UNCHANGED <<mainVars, row, retries, backoff, flight_blob, attempt, request,
                   resp, slept, requests>>

SR_Sleep ==
    /\ spc = "sleep"
    /\ slept' = slept + BackoffDelay(backoff, attempt)
    /\ attempt' = attempt + 1
    /\ spc' = "for"
    /\ UNCHANGED <<mainVars, row, retries, backoff, flight_blob, request, resp,
                   requests, fails, ret, returned>>

----------------------------------------------------------------------------
(* main *)

NoFile == [written |-> FALSE, rows |-> <<>>]

\* mutant: the new summary is put in front
AppendSummary_Prepend(list, txt) == <<txt>> \o list

\* summaries.append(txt)
AppendSummary(list, txt) == Append(list, txt)

\* wide["field_summary"] = summaries; wide.to_csv(...)
to_csv(w, column) ==
    [written |-> TRUE,
     rows |-> [i \in DOMAIN w.rows |-> [record |-> w.rows[i], field_summary |-> column[i]]]]

\* an unhandled exception ends the run
Abort == pc' = "aborted"

\* df = pd.read_csv(args.input): FileNotFoundError when the file cannot be read
ReadCsv ==
    /\ pc = "start"
    /\ IF csv.readable
       THEN /\ df' = read_csv(csv)
            /\ pc' = "read"
       ELSE /\ Abort
            /\ UNCHANGED df
    /\ UNCHANGED <<csv, delay, wide, idx, summaries, delays, outFile, printed,
                   callVars, returned>>

\* wide = pivot_flights(df): KeyError on a missing column, at line 47 for the
\* narrative columns, at line 48 (after df got resolved_text) for the others
Pivot ==
    /\ pc = "read"
    /\ IF ~(NarrativeColumns \subseteq df.columns)
       THEN /\ Abort
            /\ UNCHANGED <<df, wide>>
       ELSE IF ~(AllColumns \subseteq df.columns)
       THEN /\ Abort
            /\ df' = WithResolved(df)
            /\ UNCHANGED wide
       ELSE /\ df' = WithResolved(df)
            /\ wide' = pivot_flights(df)
            /\ pc' = "loop"
    /\ UNCHANGED <<csv, delay, idx, summaries, delays, outFile, printed,
                   callVars, returned>>

\* for _, row in wide.iterrows(): txt = summarize_row(client, args.model, row)
LoopHead ==
    /\ pc = "loop"
    /\ IF idx <= Len(wide.rows)
       THEN /\ pc' = "call"
            /\ row' = wide.rows[idx]
            /\ retries' = DefaultRetries
            /\ backoff' = DefaultBackoff
            /\ spc' = "enter"
            /\ flight_blob' = <<>>
            /\ attempt' = 0
            /\ request' = NoRequest
            /\ resp' = NoResponse
            /\ slept' = 0
            /\ requests' = 0
            /\ fails' = 0
            /\ ret' = None
       ELSE /\ pc' = "write"
            /\ UNCHANGED callVars
    /\ UNCHANGED <<csv, delay, df, wide, idx, summaries, delays, outFile, printed,
                   returned>>

\* mutant: the output file is rewritten after every summary
MainAppend_Checkpoint ==
    /\ pc = "call"
    /\ spc = "returned"
    /\ summaries' = AppendSummary(summaries, ret)
    /\ outFile' = [written |-> TRUE, rows |-> <<>>]
    /\ pc' = "delay"
    /\ spc' = "idle"
    /\ UNCHANGED <<csv, delay, df, wide, idx, delays, printed,
                   row, retries, backoff, flight_blob, attempt, request, resp,
                   slept, requests, fails, ret, returned>>

MainAppend ==
    /\ pc = "call"
    /\ spc = "returned"
    /\ summaries' = AppendSummary(summaries, ret)
    /\ pc' = "delay"
    /\ spc' = "idle"
    /\ UNCHANGED <<csv, delay, df, wide, idx, delays, outFile, printed,
                   row, retries, backoff, flight_blob, attempt, request, resp,
                   slept, requests, fails, ret, returned>>

\* mutant: no inter-call delay after a summary that is an error marker
Delay_SkipOnError ==
    /\ pc = "delay"
    /\ IF delay < 0
       THEN /\ pc' = "aborted"
            /\ UNCHANGED <<delays, idx>>
       ELSE /\ delays' = IF ret.v # <<>> /\ Head(ret.v) = "[LLM error] "
                         THEN delays ELSE delays + 1
            /\ idx' = idx + 1
            /\ pc' = "loop"
    /\ UNCHANGED <<csv, delay, df, wide, summaries, outFile, printed,
                   callVars, returned>>

\* time.sleep(args.delay): ValueError on a negative length
Delay ==
    /\ pc = "delay"
    /\ IF delay < 0
       THEN /\ Abort
            /\ UNCHANGED <<delays, idx>>
       ELSE /\ delays' = delays + 1
            /\ idx' = idx + 1
            /\ pc' = "loop"
    /\ UNCHANGED <<csv, delay, df, wide, summaries, outFile, printed,
                   callVars, returned>>

\* wide["field_summary"] = summaries (ValueError on a length mismatch), then
\* wide.to_csv(...) (OSError when the directory cannot be written)
Write ==
    /\ pc = "write"
    /\ \E writable \in BOOLEAN :
          IF Len(summaries) = Len(wide.rows) /\ writable
          THEN /\ outFile' = to_csv(wide, summaries)
               /\ pc' = "print"
          ELSE /\ Abort
               /\ UNCHANGED outFile
    /\ UNCHANGED <<csv, delay, df, wide, idx, summaries, delays, printed,
                   callVars, returned>>

PrintSaved ==
    /\ pc = "print"
    /\ printed' = TRUE
    /\ pc' = "done"
    /\ UNCHANGED <<csv, delay, df, wide, idx, summaries, delays, outFile,
                   callVars, returned>>

----------------------------------------------------------------------------
(* Inputs *)

RawRow(id, name, p, m, g) ==
    [field_id |-> id, field_name |-> name, client_name |-> <<"Acme">>,
     farm_name |-> <<"Farm">>, crop_name |-> <<"Corn">>, area |-> <<"40">>,
     pass_number |-> p, mission_rec |-> m, ag_assistant |-> g]

FieldIds == {<<"F1">>, <<"F2">>}
Passes == 1..MaxPass

\* the rows a run of main is tried on
MainRows == {RawRow(id, <<"North">>, p, m, <<>>) :
                id \in FieldIds, p \in Passes, m \in {<<>>, <<"a">>}}

\* the (mission_rec, ag_assistant) cells tried: none, fallback only, primary
\* only, both, and a blank primary with a fallback
NarrativePairs ==
    {<< <<>>, <<>> >>, << <<>>, <<"b">> >>, << <<"a">>, <<>> >>,
     << <<"a">>, <<"b">> >>, << <<" ">>, <<"b">> >>}

\* the rows pivot_flights is tried on: a field name may be missing
PivotRows == {RawRow(id, name, p, n[1], n[2]) :
                 id \in FieldIds, name \in {<<>>, <<"North">>}, p \in Passes,
                 n \in NarrativePairs}

Tables(R) == UNION {[1..n -> R] : n \in 1..MaxRows}

MissingFile == [readable |-> FALSE, columns |-> {}, rows |-> <<>>]

\* the files tried: none, every table of R with all its columns, and every
\* one-row table of R with a required column left out
Files(R) ==
    {MissingFile} \cup
    {[readable |-> TRUE, columns |-> AllColumns, rows |-> t] : t \in Tables(R)} \cup
    {[readable |-> TRUE, columns |-> AllColumns \ {c},
      rows |-> <<Restrict(r, AllColumns \ {c})>>] :
        r \in R, c \in {"area", "ag_assistant"}}

\* a field record with the given "Flight k" columns (None: no such column)
FieldRow(f) ==
    [field_id |-> Str(<<"F1">>), field_name |-> Str(<<"North">>),
     client_name |-> Str(<<"Acme">>), farm_name |-> Str(<<"Farm">>),
     crop_name |-> Str(<<"Corn">>), area |-> Str(<<"40">>),
     flights |-> [l \in {FlightLabel(k) : k \in {j \in DOMAIN f : f[j] # None}} |->
                    f[l[2]]]]

SlotValues == {None, NaN, Str(<<" ">>), Str(<<" ", "x", " ">>)}
BlobRows == {FieldRow(f) : f \in [1..MaxSlot -> SlotValues]}

CallRows == {FieldRow([k \in 1..MaxSlot |-> IF k = 2 THEN Str(<<"x">>) ELSE None]),
             FieldRow([k \in 1..MaxSlot |-> IF k = 1 THEN Str(<<" ">>) ELSE None])}

----------------------------------------------------------------------------
(* Specifications *)

MainIdle ==
    /\ delay = 1
    /\ df = NoTable
    /\ wide = NoTable
    /\ idx = 1
    /\ summaries = <<>>
    /\ delays = 0
    /\ outFile = NoFile
    /\ printed = FALSE

CallIdle ==
    /\ flight_blob = <<>>
    /\ attempt = 0
    /\ request = NoRequest
    /\ resp = NoResponse
    /\ slept = 0
    /\ requests = 0
    /\ fails = 0
    /\ ret = None
    /\ returned = <<>>

\* a run of main
Init ==
    /\ pc = "start"
    /\ csv \in Files(MainRows)
    /\ delay \in {-1, 1}
    /\ df = NoTable
    /\ wide = NoTable
    /\ idx = 1
    /\ summaries = <<>>
    /\ delays = 0
    /\ outFile = NoFile
    /\ printed = FALSE
    /\ spc = "idle"
    /\ row = FieldRow(<<>>)
    /\ retries = DefaultRetries
    /\ backoff = DefaultBackoff
    /\ CallIdle

Next ==
    \/ ReadCsv
    \/ Pivot
    \/ LoopHead
    \/ SR_Enter
    \/ SR_For
    \/ SR_Respond
    \/ SR_Handle
    \/ SR_Sleep
    \/ MainAppend
    \/ Delay
    \/ Write
    \/ PrintSaved

Spec == Init /\ [][Next]_vars

\* pd.read_csv and pivot_flights on every table of PivotRows
InitPivot ==
    /\ pc = "start"
    /\ csv \in Files(PivotRows)
    /\ MainIdle
    /\ spc = "idle"
    /\ row = FieldRow(<<>>)
    /\ retries = DefaultRetries
    /\ backoff = DefaultBackoff
    /\ CallIdle

NextPivot == ReadCsv \/ Pivot

SpecPivot == InitPivot /\ [][NextPivot]_vars

\* build_flight_blob on every row of BlobRows
InitBlob ==
    /\ pc = "blob"
    /\ csv = MissingFile
    /\ MainIdle
    /\ spc = "enter"
    /\ row \in BlobRows
    /\ retries = DefaultRetries
    /\ backoff = DefaultBackoff
    /\ CallIdle

NextBlob == SR_Enter

SpecBlob == InitBlob /\ [][NextBlob]_vars

\* one call of summarize_row, for every retries argument up to MaxRetries
InitRow ==
    /\ pc = "row"
    /\ csv = MissingFile
    /\ MainIdle
    /\ spc = "enter"
    /\ row \in CallRows
    /\ retries \in 0..MaxRetries
    /\ backoff \in {1, 2}
    /\ CallIdle

NextRow == SR_Enter \/ SR_For \/ SR_Respond \/ SR_Handle \/ SR_Sleep

SpecRow == InitRow /\ [][NextRow]_vars

----------------------------------------------------------------------------
(* Properties of summarize_row (checked under SpecRow) *)

\* the string is the error marker followed by a description
IsErrorString(c) == IsStr(c) /\ c.v # <<>> /\ Head(c.v) = Head(ErrorMarker)

RECURSIVE SumTo(_)
SumTo(k) == IF k <= 0 THEN 0 ELSE k + SumTo(k - 1)

\* C1: a call whose first k attempts fail (k < retries) and whose attempt k+1
\* succeeds returns the trimmed text of the first message item, not an error
\* marker, after exactly k+1 requests, having slept backoff*(1 + ... + k).
C1_RetryThenSuccess ==
    (spc = "returned" /\ requests > 0 /\ Succeeds(resp)) =>
        /\ fails < retries
        /\ requests = fails + 1
        /\ ret = Str(Strip(resp.output[FirstMessage(resp.output)].content[1].text))
        /\ ~IsErrorString(ret)
        /\ slept = backoff * SumTo(fails)

\* two failures, then a success on the third attempt, with the defaults: slept 2 + 4
C1_Witness ==
    /\ spc = "returned"
    /\ retries = DefaultRetries
    /\ backoff = DefaultBackoff
    /\ fails = 2
    /\ requests = 3
    /\ Succeeds(resp)
    /\ ret = Str(<<"ok">>)
    /\ slept = 6

\* C2: a call with retries >= 1 whose every attempt fails (a raised error, no
\* message item, or a message with no content block) has returned, after
\* exactly retries requests, the error marker followed by the description of
\* the last failure.
C2_ExhaustedRetries ==
    (retries >= 1 /\ fails = retries) =>
        /\ spc = "returned"
        /\ requests = retries
        /\ ~Succeeds(resp)
        /\ IsStr(ret)
        /\ SubSeq(ret.v, 1, Len(ErrorMarker)) = ErrorMarker
        /\ SubSeq(ret.v, Len(ErrorMarker) + 1, Len(ret.v)) = Describe(resp)

\* three failures, the last one a response without a message item
C2_Witness ==
    /\ spc = "returned"
    /\ retries = 3
    /\ fails = 3
    /\ resp = Answer(<<Reasoning>>)
    /\ ret = Str(ErrorMarker)

\* C10 as claimed: every call ends with a non-empty string, which is the
\* generated text or (after exactly retries failed attempts) the error marker,
\* after at most retries requests and with no sleep after the final failure.
C10_TwoOutcomes ==
    spc = "returned" =>
        /\ IsStr(ret)
        /\ ret.v # <<>>
        /\ requests <= retries
        /\ \/ requests > 0 /\ Succeeds(resp) /\ ret = Str(AnswerText(resp))
           \/ fails = retries /\ IsErrorString(ret)
        /\ slept = backoff * SumTo(IF fails = retries THEN fails - 1 ELSE fails)

----------------------------------------------------------------------------
(* Properties of pivot_flights (checked under SpecPivot) *)

\* the positions of the field records with the given six attributes
RecordsOf(key) == {n \in DOMAIN wide.rows : IndexOf(wide.rows[n]) = key}

\* row i of df is the first of its (field_id, pass_number) and has duplicates
FirstOfDuplicates(i) ==
    /\ \A j \in 1..(i - 1) : ~SameSubset(df.rows[j], df.rows[i])
    /\ \E j \in (i + 1)..Len(df.rows) : SameSubset(df.rows[j], df.rows[i])

\* C4 as claimed: the field records are exactly the distinct combinations of
\* the six attributes in the input, each once.
C4_OneRecordPerField ==
    pc = "loop" =>
        /\ \A i \in DOMAIN df.rows : Cardinality(RecordsOf(IndexOf(df.rows[i]))) = 1
        /\ \A n \in DOMAIN wide.rows :
              \E i \in DOMAIN df.rows : IndexOf(df.rows[i]) = IndexOf(wide.rows[n])

\* row i of df is the first of its (field_id, pass_number), has a narrative,
\* and a later row of the same (field_id, pass_number) has another narrative
FirstOfDifferentNarratives(i) ==
    /\ \A j \in 1..(i - 1) : ~SameSubset(df.rows[j], df.rows[i])
    /\ ~IsNa(df.rows[i].resolved_text)
    /\ \E j \in (i + 1)..Len(df.rows) :
          /\ SameSubset(df.rows[j], df.rows[i])
          /\ ~IsNa(df.rows[j].resolved_text)
          /\ df.rows[j].resolved_text # df.rows[i].resolved_text

\* C5 as claimed: when rows share a (field_id, pass_number) and differ in
\* their narratives, the field's output record holds in slot
\* "Flight <pass_number>" one narrative, the resolved narrative of the first
\* of these rows.
C5_FirstNarrativeKept ==
    pc = "loop" =>
        \A i \in DOMAIN df.rows :
            FirstOfDifferentNarratives(i) =>
                LET r == df.rows[i]
                    l == FlightLabel(r.pass_number)
                    recs == {n \in DOMAIN wide.rows : wide.rows[n].field_id = r.field_id}
                IN /\ recs # {}
                   /\ l \in wide.columns
                   /\ \A n \in recs : wide.rows[n].flights[l] = r.resolved_text

\* What the deduplication does guarantee: no record of the field ever holds a
\* later duplicate's narrative, and the first row's narrative is in its
\* record's slot whenever that row has all six attributes.
FirstDuplicateWinsWhenKept ==
    pc = "loop" =>
        \A i \in DOMAIN df.rows :
            FirstOfDuplicates(i) =>
                LET r == df.rows[i]
                    l == FlightLabel(r.pass_number)
                IN /\ \A n \in DOMAIN wide.rows :
                        (wide.rows[n].field_id = r.field_id /\ l \in wide.columns) =>
                            wide.rows[n].flights[l] =
                                IF IndexOf(wide.rows[n]) = IndexOf(r)
                                THEN r.resolved_text ELSE NaN
                   /\ (~IsNa(r.resolved_text) /\ ~HasNullKey(r)) =>
                        /\ Cardinality(RecordsOf(IndexOf(r))) = 1
                        /\ l \in wide.columns

\* C6: once pivot_flights has resolved the narratives, every row whose
\* mission_rec cell is empty has the ag_assistant value as its resolved
\* narrative, and every row with both cells filled has the mission_rec text.
C6_NarrativeResolution ==
    "resolved_text" \in df.columns =>
        /\ Len(df.rows) = Len(csv.rows)
        /\ \A i \in DOMAIN df.rows :
              /\ csv.rows[i].mission_rec = <<>> =>
                    df.rows[i].resolved_text = ReadCell("ag_assistant", csv.rows[i].ag_assistant)
              /\ (csv.rows[i].mission_rec # <<>> /\ csv.rows[i].ag_assistant # <<>>) =>
                    df.rows[i].resolved_text = Str(csv.rows[i].mission_rec)

\* one row resolved to its fallback, one row with both narratives resolved to
\* its primary
C6_Witness ==
    /\ "resolved_text" \in df.columns
    /\ Len(df.rows) = 2
    /\ csv.rows[1].mission_rec = <<>>
    /\ csv.rows[1].ag_assistant = <<"b">>
    /\ df.rows[1].resolved_text = Str(<<"b">>)
    /\ csv.rows[2].mission_rec = <<"a">>
    /\ csv.rows[2].ag_assistant = <<"b">>
    /\ df.rows[2].resolved_text = Str(<<"a">>)

----------------------------------------------------------------------------
(* Properties of build_flight_blob (checked under SpecBlob) *)

HasText(c) == IsStr(c) /\ \E n \in DOMAIN c.v : c.v[n] # " "

\* the text between the first and the last character that is not a space
Trimmed(v) ==
    LET solid == {n \in DOMAIN v : v[n] # " "}
        lo == CHOOSE n \in solid : \A m \in solid : n <= m
        hi == CHOOSE n \in solid : \A m \in solid : m <= n
    IN SubSeq(v, lo, hi)

\* the slots 1..NumSlots of the row that hold a narrative
PresentSlots(r) ==
    {k \in 1..NumSlots :
        FlightLabel(k) \in DOMAIN r.flights /\ HasText(r.flights[FlightLabel(k)])}

\* C7: the blob has exactly one line "- Flight k: <trimmed text>" for each
\* slot k of 1..NumSlots that holds a narrative which is not blank, in
\* ascending slot order, and no line for a slot that is absent, NaN or
\* blank; with no such slot it is the placeholder line alone.
C7_BlobLines ==
    spc = "for" =>
        LET S == PresentSlots(row)
        IN IF S = {}
           THEN flight_blob = <<Placeholder>>
           ELSE /\ Len(flight_blob) = Cardinality(S)
                /\ \A n \in DOMAIN flight_blob :
                      /\ Len(flight_blob[n]) > 3
                      /\ flight_blob[n][2] \in S
                      /\ flight_blob[n] =
                            <<"- Flight ", flight_blob[n][2], ": ">>
                            \o Trimmed(row.flights[FlightLabel(flight_blob[n][2])].v)
                /\ \A n, m \in DOMAIN flight_blob :
                      n < m => flight_blob[n][2] < flight_blob[m][2]

\* narratives in slots 2 and 5 only: two lines, Flight 2 then Flight 5
C7_Witness ==
    /\ spc = "for"
    /\ PresentSlots(row) = {2, 5}
    /\ flight_blob = << <<"- Flight ", 2, ": ", "x">>, <<"- Flight ", 5, ": ", "x">> >>

----------------------------------------------------------------------------
(* Properties of main (checked under Spec) *)

\* the summaries so far are the values summarize_row returned for the first
\* field records, in order; only a negative delay or the write ends a run early
SummariesInOrder ==
    /\ Len(summaries) <= Len(wide.rows)
    /\ Len(summaries) <= Len(returned)
    /\ \A i \in DOMAIN summaries :
          /\ returned[i].row = wide.rows[i]
          /\ summaries[i] = returned[i].value
    /\ (pc = "aborted" /\ delay >= 0) => Len(summaries) = Len(wide.rows)
    /\ pc \in {"write", "print", "done"} => Len(summaries) = Len(wide.rows)

\* a step keeps every entry the list already has
WrittenOnce ==
    \A i \in DOMAIN summaries : i \in DOMAIN summaries' /\ summaries'[i] = summaries[i]

\* C3: the summaries list is always the results summarize_row computed for
\* the first field records, in order; entries are never revised; a generation
\* failure never ends the run (a run with a valid delay is not aborted before
\* every field record has its entry); and past the loop there is exactly one
\* entry per field record.
C3_OneSummaryPerField == [](SummariesInOrder) /\ [][WrittenOnce]_vars

\* a finished run over two field records, the first of which exhausted its retries
C3_Witness ==
    /\ pc = "done"
    /\ Len(wide.rows) = 2
    /\ Len(summaries) = 2
    /\ IsErrorString(summaries[1])
    /\ summaries[2] = Str(<<"ok">>)

\* C8: a request is in flight only inside the one active call of
\* summarize_row, for the field record at the loop position, and only when all
\* the records before it have their summary recorded and their inter-call
\* delay done; there is one delay per summarization, whatever its result.
C8_Sequential ==
    /\ request # NoRequest =>
          /\ pc = "call"
          /\ spc = "await"
          /\ idx \in DOMAIN wide.rows
          /\ request.input = Prompt(wide.rows[idx], build_flight_blob(wide.rows[idx]))
    /\ pc = "call" => Len(summaries) = idx - 1 /\ delays = idx - 1
    /\ pc = "delay" => Len(summaries) = idx /\ delays = idx - 1
    /\ pc \in {"loop", "write", "print", "done"} =>
          Len(summaries) = idx - 1 /\ delays = Len(summaries)

\* the request for the second record, after the first ended in an error marker
C8_Witness ==
    /\ request # NoRequest
    /\ idx = 2
    /\ IsErrorString(summaries[1])
    /\ delays = 1

\* C9: the output file exists only once every field record has its summary;
\* an aborted run has written no file and printed nothing; the message is
\* printed only after the write.
C9_NoPartialOutput ==
    /\ outFile.written =>
          /\ pc \in {"print", "done"}
          /\ Len(outFile.rows) = Len(wide.rows)
          /\ \A i \in DOMAIN outFile.rows :
                /\ outFile.rows[i].record = wide.rows[i]
                /\ outFile.rows[i].field_summary = summaries[i]
    /\ pc = "aborted" => outFile = NoFile /\ ~printed
    /\ printed => outFile.written

\* a run aborted in the loop, after the first summary, by a negative --delay
C9_Witness ==
    /\ pc = "aborted"
    /\ Len(wide.rows) = 2
    /\ Len(summaries) = 1
    /\ outFile = NoFile

====
